---------------------------- MODULE Spec2Model ----------------------------
(***************************************************************************)
(* The 5G network simulator of src/src/api.py as a state machine: the      *)
(* device registry (SimulatorState), the websocket hub (ConnectionManager), *)
(* the background task simulate_network and the lifespan handler that      *)
(* starts and stops it.  asyncio runs one coroutine at a time, so a step   *)
(* of the model is the code a coroutine runs between two suspension        *)
(* points (await).                                                         *)
(*                                                                         *)
(* Latency and throughput are floats in the code; the model keeps them as  *)
(* integers (the ranges and deltas of the code are integers) and keeps     *)
(* quotients as exact fractions [num, den].                                *)
(*                                                                         *)
(* The stand-alone simulator of src/src/simulator.py (NetworkSlice,        *)
(* NetworkSimulator and its run_simulation) is modelled next to it, on     *)
(* variables of its own: the two programs share no object.                 *)
(***************************************************************************)
EXTENDS Integers, Sequences, FiniteSets, TLC

\* ------------------------------------------------------------------ bounds
\* points of [a, b] that random.uniform(a, b) is sampled at
NumSamples == 2
\* websocket connections that are ever opened
NumSockets == 2
\* iterations of the while loop of simulate_network
MaxCycles == 2
\* POST /api/devices requests, and the largest count of one request
MaxAddCalls == 1
MaxCount == 2
\* DELETE /api/devices/{id} requests
MaxRemoveCalls == 2
\* reset() calls and POST /api/reset requests (each)
MaxResets == 1
\* direct calls of ConnectionManager.disconnect by the hosting layer
MaxUnsubscribes == 1
\* eMBB smartphones of a registry handed to get_metrics
MaxFleet == 21
\* direct calls of SimulatorState.add_device
MaxAdds == 3
\* iterations of the while loop of simulate_network_conditions
MaxSimCycles == 102

\* ------------------------------------------------------- program constants
max_capacity == 10000
ListingCap == 20
DemoEMBB == 5
DemoMMTC == 3
DemoURLLC == 2
ResetEMBB == 3
ResetMMTC == 2
HistoryCap == 100

VARIABLES
    devices,            \* simulator.devices: the dict, as the sequence of its values in insertion order
    device_counter,     \* simulator.device_counter
    is_running,         \* simulator.is_running
    active_connections, \* manager.active_connections
    lifePc,             \* lifespan: "init", "running" (yielded), "stopping" (await simulation_task), "stopped"
    stopOutcome,        \* how the shutdown half of lifespan ended: "none", "ok", "error"
    tickPc,             \* simulation_task: "none", "ready", "sending", "sleeping", "done", "cancelled", "failed"
    bIdx,               \* index of the list iterator of broadcast's for loop (0-based)
    awaiting,           \* the send the task is suspended on, or NoSend
    cancelReq,          \* simulation_task.cancel() was called and its CancelledError is not yet thrown
    inflight,           \* sends started and not yet completed by the transport
    message,            \* the dict handed to the running (or last) broadcast
    wsPc,               \* websocket_endpoint of each socket: "new", "open" (in the receive loop), "closed"
    chan,               \* the client side of each socket: "none", "open", "stalled", "closed"
    recv,               \* what each client received, in order (publish sequence numbers)
    adds,               \* add_device calls that returned a device since the last reset()
    removes,            \* remove_device calls that returned True since the last reset()
    cycles,             \* iterations of the tick loop begun so far
    cyclesAtStop,       \* cycles when the shutdown began, -1 before
    pub,                \* bookkeeping of the running (or last) publish
    rng,                \* the state of the generator of the random module
    lastCall,           \* the last call of a registry or hub method and how it ended
    calls,              \* requests made so far, by kind
    network_slices,     \* NetworkSimulator.network_slices: slice_id -> [current_load, status]
    metrics_history,    \* NetworkSimulator.metrics_history
    simulation_time,    \* NetworkSimulator.simulation_time
    sim_is_running,     \* NetworkSimulator.is_running
    runPc,              \* run_simulation: "idle", "waiting" (sleep(duration)), "awaiting" (await simulation_task), "returned"
    simPc,              \* the task of simulate_network_conditions: "none", "ready", "sleeping", "done", "cancelled"
    simCancelReq,       \* its cancel() was called and the CancelledError is not yet thrown
    runOutcome,         \* how run_simulation ended: "none", "ok", "error"
    simCycles           \* iterations of the loop of simulate_network_conditions completed

vars == <<devices, device_counter, is_running, active_connections, lifePc, stopOutcome,
          tickPc, bIdx, awaiting, cancelReq, inflight, message, wsPc, chan, recv,
          adds, removes, cycles, cyclesAtStop, pub, rng, lastCall, calls,
          network_slices, metrics_history, simulation_time, sim_is_running, runPc, simPc,
          simCancelReq, runOutcome, simCycles>>

\* the objects of api.py but the generator, and those of simulator.py
apiVars == <<devices, device_counter, is_running, active_connections, lifePc, stopOutcome,
             tickPc, bIdx, awaiting, cancelReq, inflight, message, wsPc, chan, recv,
             adds, removes, cycles, cyclesAtStop, pub, lastCall, calls>>
simVars == <<network_slices, metrics_history, simulation_time, sim_is_running, runPc, simPc,
             simCancelReq, runOutcome, simCycles>>

registryVars == <<devices, device_counter, adds, removes>>
taskVars == <<tickPc, bIdx, awaiting, inflight, pub>>
socketVars == <<wsPc, chan, recv>>
lifeVars == <<lifePc, stopOutcome, cancelReq, cyclesAtStop>>

\* ----------------------------------------------------------------- helpers
Sockets == 1..NumSockets
Seeds == 0..(NumSamples - 1)
NoSend == [ws |-> 0, seq |-> 0]

Min(a, b) == IF a <= b THEN a ELSE b
Max(a, b) == IF a >= b THEN a ELSE b
Range(s) == {s[i] : i \in 1..Len(s)}

RECURSIVE SumOf(_, _)
SumOf(s, field) == IF s = <<>> THEN 0 ELSE s[1][field] + SumOf(Tail(s), field)

RECURSIVE Without(_, _)
\* list.remove(x): the list without the first occurrence of x
Without(s, x) ==
    IF s = <<>> THEN <<>>
    ELSE IF s[1] = x THEN Tail(s) ELSE <<s[1]>> \o Without(Tail(s), x)

\* The generator of the random module is deterministic from its seed: its
\* state g is a position in a cycle of NumSamples sample indices.  Draw(g, k)
\* is the k-th value (k = 0, 1, ...) it yields from state g, Advance(g, n) its
\* state after n values.
Draw(g, k) == (g + k) % NumSamples
Advance(g, n) == (g + n) % NumSamples

\* random.uniform(a, b) at sample index u: a, ..., b in NumSamples - 1 equal parts
uniform(a, b, u) == a + ((b - a) * u) \div (NumSamples - 1)

\* ---------------------------------------------------------------- registry
DeviceTypes == {"smartphone", "vehicle", "iot"}
SliceTypes == {"eMBB", "URLLC", "mMTC"}

latency_ranges ==
    [s \in SliceTypes |->
        CASE s = "URLLC" -> <<1, 5>>
          [] s = "eMBB" -> <<10, 30>>
          [] s = "mMTC" -> <<50, 200>>]

\* latency_ranges.get(slice_type, (10, 50))
LatencyRange(s) == IF s \in DOMAIN latency_ranges THEN latency_ranges[s] ELSE <<10, 50>>

throughput_ranges ==
    [t \in DeviceTypes |->
        CASE t = "smartphone" ->
                 [s \in SliceTypes |-> CASE s = "eMBB" -> <<100, 1000>>
                                         [] s = "URLLC" -> <<50, 200>>
                                         [] s = "mMTC" -> <<10, 50>>]
          [] t = "vehicle" ->
                 [s \in SliceTypes |-> CASE s = "eMBB" -> <<50, 500>>
                                         [] s = "URLLC" -> <<100, 500>>
                                         [] s = "mMTC" -> <<20, 100>>]
          [] t = "iot" ->
                 [s \in SliceTypes |-> CASE s = "eMBB" -> <<10, 100>>
                                         [] s = "URLLC" -> <<5, 50>>
                                         [] s = "mMTC" -> <<1, 10>>]]

\* throughput_ranges[device_type][slice_type] raises KeyError
NoThroughputRange(t, s) ==
    \/ t \notin DOMAIN throughput_ranges
    \/ s \notin DOMAIN throughput_ranges[t]

\* f"{device_type}_{self.device_counter:04d}": the type and the number padded to
\* at least four digits; distinct (type, number) pairs give distinct strings
DeviceId(t, n) == <<t, n>>

\* self.devices[device_id] = device: a new key goes last, a key already there
\* keeps its place
DictSet(devs, d) ==
    IF \E i \in 1..Len(devs) : devs[i].id = d.id
    THEN [i \in 1..Len(devs) |-> IF devs[i].id = d.id THEN d ELSE devs[i]]
    ELSE Append(devs, d)

\* A registry in the middle of a handler: the dict, the counter, the devices
\* returned so far, whether a call raised, and the draws used of the stream.
Reg(devs, ctr) == [devs |-> devs, ctr |-> ctr, added |-> 0, raised |-> FALSE, k |-> 0]

\* add_device numbering by the size of the dict (len(self.devices) + 1) and not
\* by the counter
add_device_len_id(r, t, s, seed, now) ==
    LET ctr == Len(r.devs) + 1
        lr == LatencyRange(s)
        lat == uniform(lr[1], lr[2], Draw(seed, r.k))
    IN  IF NoThroughputRange(t, s)
        THEN [r EXCEPT !.ctr = ctr, !.raised = TRUE, !.k = r.k + 1]
        ELSE LET tr == throughput_ranges[t][s]
                 d == [id |-> DeviceId(t, ctr), type |-> t, slice |-> s,
                       connected_at |-> now, latency |-> lat,
                       throughput |-> uniform(tr[1], tr[2], Draw(seed, r.k + 1)),
                       lat_writes |-> 0, thr_writes |-> 0]
             IN  [r EXCEPT !.devs = DictSet(r.devs, d), !.ctr = ctr,
                           !.added = r.added + 1, !.k = r.k + 2]

\* add_device with a default for the throughput as there is one for the latency
\* (.get(slice_type, (10, 100))): no pair raises and every call stores a device
add_device_fallback(r, t, s, seed, now) ==
    LET ctr == r.ctr + 1
        lr == LatencyRange(s)
        tr == IF NoThroughputRange(t, s) THEN <<10, 100>> ELSE throughput_ranges[t][s]
        d == [id |-> DeviceId(t, ctr), type |-> t, slice |-> s,
              connected_at |-> now,
              latency |-> uniform(lr[1], lr[2], Draw(seed, r.k)),
              throughput |-> uniform(tr[1], tr[2], Draw(seed, r.k + 1)),
              lat_writes |-> 0, thr_writes |-> 0]
    IN  [r EXCEPT !.devs = DictSet(r.devs, d), !.ctr = ctr,
                  !.added = r.added + 1, !.k = r.k + 2]

\* Besides the fields of Device a record carries two counters the program does
\* not store: lat_writes and thr_writes, the number of times the tick loop has
\* written the latency and the throughput of this device.
add_device(r, t, s, seed, now) ==
    LET ctr == r.ctr + 1
        lr == LatencyRange(s)
        lat == uniform(lr[1], lr[2], Draw(seed, r.k))
    IN  IF NoThroughputRange(t, s)
        THEN [r EXCEPT !.ctr = ctr, !.raised = TRUE, !.k = r.k + 1]
        ELSE LET tr == throughput_ranges[t][s]
                 d == [id |-> DeviceId(t, ctr), type |-> t, slice |-> s,
                       connected_at |-> now, latency |-> lat,
                       throughput |-> uniform(tr[1], tr[2], Draw(seed, r.k + 1)),
                       lat_writes |-> 0, thr_writes |-> 0]
             IN  [r EXCEPT !.devs = DictSet(r.devs, d), !.ctr = ctr,
                           !.added = r.added + 1, !.k = r.k + 2]

RECURSIVE AddMany(_, _, _, _, _, _)
\* for _ in range(n): add_device(t, s); the first call that raises ends the loop
AddMany(r, t, s, n, seed, now) ==
    IF n <= 0 \/ r.raised THEN r
    ELSE AddMany(add_device(r, t, s, seed, now), t, s, n - 1, seed, now)

HasDevice(devs, id) == \E i \in 1..Len(devs) : devs[i].id = id

\* del self.devices[device_id]
DictDel(devs, id) == SelectSeq(devs, LAMBDA d : d.id # id)

\* remove_device without its del: True is returned and the device stays
remove_device_skip(devs, id) ==
    IF HasDevice(devs, id)
    THEN [devs |-> devs, ret |-> TRUE]
    ELSE [devs |-> devs, ret |-> FALSE]

\* remove_device with popitem() for its del: the device inserted last goes
remove_device_popitem(devs, id) ==
    IF HasDevice(devs, id)
    THEN [devs |-> SubSeq(devs, 1, Len(devs) - 1), ret |-> TRUE]
    ELSE [devs |-> devs, ret |-> FALSE]

\* SimulatorState.remove_device: the dict after the call and the value returned
remove_device(devs, id) ==
    IF HasDevice(devs, id)
    THEN [devs |-> DictDel(devs, id), ret |-> TRUE]
    ELSE [devs |-> devs, ret |-> FALSE]

Frac(n, d) == [num |-> n, den |-> d]

\* slice_distribution[device.slice] += 1 raises KeyError for a slice that is not
\* one of the three keys of the dict
MetricsRaises(devs) == \E i \in 1..Len(devs) : devs[i].slice \notin SliceTypes

\* (total_throughput / max_capacity) * 100 without the min
NetworkLoadNoMin(total_throughput) == Frac(total_throughput * 100, max_capacity)

\* min((total_throughput / max_capacity) * 100, 100)
NetworkLoad(total_throughput) ==
    LET scaled == total_throughput * 100
    IN  IF scaled <= 100 * max_capacity THEN Frac(scaled, max_capacity) ELSE Frac(100, 1)

\* a distribution built from the devices alone: a slice no device has is no key
SliceDistributionSparse(devs) ==
    [s \in {devs[i].slice : i \in 1..Len(devs)} |->
        Cardinality({i \in 1..Len(devs) : devs[i].slice = s})]

\* the dict of the three slices, each at 0, and one increment for each device
SliceDistribution(devs) ==
    [s \in SliceTypes |-> Cardinality({i \in 1..Len(devs) : devs[i].slice = s})]

\* the dict of one device in the listing; round(x, 2) leaves the whole numbers
\* of the model as they are
Summary(d) ==
    [id |-> d.id, type |-> d.type, slice |-> d.slice, latency |-> d.latency,
     throughput |-> d.throughput]

\* the listing taken from the end of the dict ([-20:])
ListingLast(devs) ==
    LET n == Min(Len(devs), ListingCap)
    IN  [i \in 1..n |-> Summary(devs[Len(devs) - n + i])]

\* [... for d in list(self.devices.values())[:20]]
Listing(devs) == [i \in 1..Min(Len(devs), ListingCap) |-> Summary(devs[i])]

\* get_metrics from its "Calculate metrics" comment on; avg_latency is the
\* quotient sum / total_devices, which is a division by zero for no device
Aggregate(devs) ==
    LET total_devices == Len(devs)
        total_throughput == SumOf(devs, "throughput")
    IN  [network_load |-> NetworkLoad(total_throughput),
         total_devices |-> total_devices,
         avg_latency |-> Frac(SumOf(devs, "latency"), total_devices),
         throughput |-> total_throughput,
         slice_distribution |-> SliceDistribution(devs),
         devices |-> Listing(devs)]

\* get_metrics without its "if not self.devices" branch
get_metrics_no_empty_case(devs) == Aggregate(devs)

get_metrics(devs) ==
    IF devs = <<>>
    THEN [network_load |-> Frac(0, 1), total_devices |-> 0, avg_latency |-> Frac(0, 1),
          throughput |-> 0,
          slice_distribution |-> [s \in SliceTypes |-> 0],
          devices |-> <<>>]
    ELSE Aggregate(devs)

\* the loop stamping each device it perturbs (connected_at moved on)
PerturbAllTouch(devs, seed) ==
    [j \in 1..Len(devs) |->
        [devs[j] EXCEPT
            !.latency = Max(1, @ + uniform(-2, 2, Draw(seed, 2 * (j - 1)))),
            !.lat_writes = @ + 1,
            !.throughput = Max(1, @ + uniform(-10, 10, Draw(seed, 2 * (j - 1) + 1))),
            !.thr_writes = @ + 1,
            !.connected_at = @ + 1]]

\* the loop without its two max(1, ...) lines
PerturbAllNoClamp(devs, seed) ==
    [j \in 1..Len(devs) |->
        [devs[j] EXCEPT
            !.latency = @ + uniform(-2, 2, Draw(seed, 2 * (j - 1))),
            !.lat_writes = @ + 1,
            !.throughput = @ + uniform(-10, 10, Draw(seed, 2 * (j - 1) + 1)),
            !.thr_writes = @ + 1]]

\* the loop with a suspension between the two writes of a device: when the
\* task gives up control the latency is written and the throughput is not
PerturbAllLatencyFirst(devs, seed) ==
    [j \in 1..Len(devs) |->
        [devs[j] EXCEPT
            !.latency = Max(1, @ + uniform(-2, 2, Draw(seed, 2 * (j - 1)))),
            !.lat_writes = @ + 1]]

\* the loop over simulator.devices.values() of simulate_network: device j
\* (0-based) takes draws 2j and 2j + 1 of the stream
PerturbAll(devs, seed) ==
    [j \in 1..Len(devs) |->
        [devs[j] EXCEPT
            !.latency = Max(1, @ + uniform(-2, 2, Draw(seed, 2 * (j - 1)))),
            !.lat_writes = @ + 1,
            !.throughput = Max(1, @ + uniform(-10, 10, Draw(seed, 2 * (j - 1) + 1))),
            !.thr_writes = @ + 1]]

\* the dict simulate_network hands to broadcast
MetricsUpdate(m) ==
    [type |-> "metrics_update", network_load |-> m.network_load,
     avg_latency |-> m.avg_latency, throughput |-> m.throughput,
     total_devices |-> m.total_devices, slice_distribution |-> m.slice_distribution]

\* ----------------------------------------------------------- call records
NoArg == <<>>
NoCall == [op |-> "none", arg |-> NoArg, pre |-> FALSE, ok |-> TRUE]

\* ------------------------------------------------------------ simulator.py
\* random.randint(a, b) at sample index u
randint(a, b, u) == a + ((b - a) * u) \div (NumSamples - 1)

\* the keys of network_slices in the order _initialize_slices inserts them
SliceOrder == <<"EMBB-001", "URLLC-001", "MMTC-001">>
SliceIds == Range(SliceOrder)

\* NetworkSlice.__init__
NetworkSlice(u) == [current_load |-> randint(20, 60, u), status |-> "active"]

\* the if / elif / else of update_load
StatusOf(load) ==
    IF load > 80 THEN "congested"
    ELSE IF load > 60 THEN "degraded"
    ELSE "active"

\* update_load without max(0, min(100, ...))
update_load_unclamped(sl, u) ==
    LET load == sl.current_load + randint(-10, 15, u)
    IN  [current_load |-> load, status |-> StatusOf(load)]

\* NetworkSlice.update_load with the draw at sample index u
update_load(sl, u) ==
    LET load == Max(0, Min(100, sl.current_load + randint(-10, 15, u)))
    IN  [current_load |-> load, status |-> StatusOf(load)]

\* metrics_history with no cut ("if len(...) > 100" never taken)
TrimHistoryNever(h) == h

\* if len(self.metrics_history) > 100: self.metrics_history = self.metrics_history[-100:]
TrimHistory(h) ==
    IF Len(h) > HistoryCap THEN SubSeq(h, Len(h) - HistoryCap + 1, Len(h)) ELSE h

\* api.py creates no NetworkSimulator
NoSimulator ==
    /\ network_slices = [id \in SliceIds |-> [current_load |-> 0, status |-> "active"]]
    /\ metrics_history = <<>>
    /\ simulation_time = 0
    /\ sim_is_running = FALSE
    /\ runPc = "idle"
    /\ simPc = "none"
    /\ simCancelReq = FALSE
    /\ runOutcome = "none"
    /\ simCycles = 0

\* NetworkSimulator.__init__ with _initialize_slices
NetworkSimulatorInit ==
    /\ \E u \in [SliceIds -> Seeds] :
           network_slices = [id \in SliceIds |-> NetworkSlice(u[id])]
    /\ metrics_history = <<>>
    /\ simulation_time = 0
    /\ sim_is_running = FALSE
    /\ runPc = "idle"
    /\ simPc = "none"
    /\ simCancelReq = FALSE
    /\ runOutcome = "none"
    /\ simCycles = 0

\* a call of update_load on one slice
UpdateLoad(id) ==
    /\ \E u \in Seeds : network_slices' = [network_slices EXCEPT ![id] = update_load(@, u)]
    /\ UNCHANGED <<rng, apiVars, metrics_history, simulation_time, sim_is_running, runPc,
                   simPc, simCancelReq, runOutcome, simCycles>>

\* run_simulation up to its await asyncio.sleep(duration_seconds)
RunSimulation ==
    /\ runPc = "idle"
    /\ sim_is_running' = TRUE
    /\ simPc' = "ready"
    /\ runPc' = "waiting"
    /\ UNCHANGED <<rng, apiVars, network_slices, metrics_history, simulation_time,
                   simCancelReq, runOutcome, simCycles>>

\* simulate_network_conditions from the test of its while loop to its next
\* await; slice k (0-based, in dict order) takes draw k of the stream
SimCycle ==
    IF ~sim_is_running
    THEN /\ simPc' = "done"
         /\ UNCHANGED <<rng, network_slices, metrics_history, simulation_time, simCycles>>
    ELSE /\ simCycles < MaxSimCycles
         /\ network_slices' =
               [id \in SliceIds |->
                   LET k == CHOOSE i \in 1..Len(SliceOrder) : SliceOrder[i] = id
                   IN  update_load(network_slices[id], Draw(rng, k - 1))]
         /\ rng' = Advance(rng, Len(SliceOrder))
         /\ metrics_history' =
               TrimHistory(Append(metrics_history,
                   [time |-> simulation_time,
                    slices |-> [id \in SliceIds |-> network_slices'[id].current_load]]))
         /\ simulation_time' = simulation_time + 1
         /\ simCycles' = simCycles + 1
         /\ simPc' = "sleeping"

\* the event loop runs the new task for the first time
SimTaskStart ==
    /\ simPc = "ready"
    /\ SimCycle
    /\ UNCHANGED <<apiVars, sim_is_running, runPc, simCancelReq, runOutcome>>

\* asyncio.sleep(1) expires
SimSleepExpire ==
    /\ simPc = "sleeping"
    /\ ~simCancelReq
    /\ SimCycle
    /\ UNCHANGED <<apiVars, sim_is_running, runPc, simCancelReq, runOutcome>>

\* asyncio.sleep(duration_seconds) expires: is_running = False and cancel().
\* The task was scheduled before run_simulation suspended, so it has run its
\* first iteration and is at its sleep.
DurationElapsed ==
    /\ runPc = "waiting"
    /\ simPc = "sleeping"
    /\ sim_is_running' = FALSE
    /\ simCancelReq' = TRUE
    /\ runPc' = "awaiting"
    /\ UNCHANGED <<rng, apiVars, network_slices, metrics_history, simulation_time, simPc,
                   runOutcome, simCycles>>

\* the CancelledError is thrown into the task at its await asyncio.sleep(1),
\* where nothing catches it
SimCancelAtSleep ==
    /\ simCancelReq
    /\ simPc = "sleeping"
    /\ simPc' = "cancelled"
    /\ simCancelReq' = FALSE
    /\ UNCHANGED <<rng, apiVars, network_slices, metrics_history, simulation_time,
                   sim_is_running, runPc, runOutcome, simCycles>>

\* try: await simulation_task / except asyncio.CancelledError: pass
RunReturn ==
    /\ runPc = "awaiting"
    /\ simPc \in {"done", "cancelled"}
    /\ runPc' = "returned"
    /\ runOutcome' = "ok"
    /\ UNCHANGED <<rng, apiVars, network_slices, metrics_history, simulation_time,
                   sim_is_running, simPc, simCancelReq, simCycles>>

\* ------------------------------------------------------------------- init
ApiInit ==
    /\ devices = <<>>
    /\ device_counter = 0
    /\ is_running = FALSE
    /\ active_connections = <<>>
    /\ lifePc = "init"
    /\ stopOutcome = "none"
    /\ tickPc = "none"
    /\ bIdx = 0
    /\ awaiting = NoSend
    /\ cancelReq = FALSE
    /\ inflight = {}
    /\ message = MetricsUpdate(get_metrics(<<>>))
    /\ wsPc = [w \in Sockets |-> "new"]
    /\ chan = [w \in Sockets |-> "none"]
    /\ recv = [w \in Sockets |-> <<>>]
    /\ adds = 0
    /\ removes = 0
    /\ cycles = 0
    /\ cyclesAtStop = -1
    /\ pub = [seq |-> 0, stable |-> {}, attempts |-> [w \in Sockets |-> 0],
              failed |-> {}, cancelled |-> {}, disturbed |-> FALSE, complete |-> FALSE]
    /\ rng \in Seeds
    /\ lastCall = NoCall
    /\ calls = [add |-> 0, remove |-> 0, reset |-> 0, reset_simulation |-> 0, unsubscribe |-> 0]

Init == ApiInit /\ NoSimulator

\* a NetworkSimulator just constructed, in a process of its own
SimInit == ApiInit /\ NetworkSimulatorInit

\* --------------------------------------------------------------- broadcast
\* Bookkeeping of a publish (one call of broadcast), kept for the properties:
\*   seq        its number, 1 for the first publish
\*   stable     the sockets registered at its start that no disconnect has removed since
\*   attempts   how many sends it started to each socket
\*   failed     the sockets whose send raised because the connection is closed
\*   cancelled  the sockets whose send was interrupted by a CancelledError
\*   disturbed  a disconnect ran while it was suspended in a send
\*   complete   broadcast returned
NewPub ==
    [seq |-> pub.seq + 1, stable |-> Range(active_connections),
     attempts |-> [w \in Sockets |-> 0], failed |-> {}, cancelled |-> {},
     disturbed |-> FALSE, complete |-> FALSE]

\* disconnect was called for w: w is registered no longer
HubChanged(w) ==
    [pub EXCEPT !.stable = @ \ {w}, !.disturbed = @ \/ (tickPc = "sending")]

\* the send s ended with an exception
SendRaised(s, exc) ==
    IF exc = "cancelled"
    THEN [pub EXCEPT !.cancelled = @ \cup {s.ws}]
    ELSE [pub EXCEPT !.failed = @ \cup {s.ws}]

\* Every send of the rest of the list is started at once and none is awaited;
\* the task goes on to its sleep.
BroadcastDetached(i, conns, fl, p) ==
    /\ tickPc' = "sleeping"
    /\ bIdx' = 0
    /\ awaiting' = NoSend
    /\ inflight' = fl \cup {[ws |-> conns[j], seq |-> p.seq] : j \in (i + 1)..Len(conns)}
    /\ pub' = [p EXCEPT !.complete = TRUE,
                        !.attempts = [w \in Sockets |->
                            p.attempts[w] + Cardinality({j \in (i + 1)..Len(conns) : conns[j] = w})]]

\* The for loop of broadcast with its list iterator at index i (0-based) over
\* the list as it is now: the next send is started and awaited, or the list is
\* exhausted, broadcast returns and simulate_network awaits its sleep.
Broadcast(i, conns, fl, p) ==
    IF i < Len(conns)
    THEN LET s == [ws |-> conns[i + 1], seq |-> p.seq]
         IN  /\ tickPc' = "sending"
             /\ bIdx' = i
             /\ awaiting' = s
             /\ inflight' = fl \cup {s}
             /\ pub' = [p EXCEPT !.attempts[s.ws] = @ + 1]
    ELSE /\ tickPc' = "sleeping"
         /\ bIdx' = 0
         /\ awaiting' = NoSend
         /\ inflight' = fl
         /\ pub' = [p EXCEPT !.complete = TRUE]

\* the exception leaves broadcast and simulate_network: the task ends with it
OnSendErrorRaise(s, exc) ==
    /\ active_connections' = active_connections
    /\ tickPc' = IF exc = "cancelled" THEN "cancelled" ELSE "failed"
    /\ bIdx' = 0
    /\ awaiting' = NoSend
    /\ inflight' = inflight \ {s}
    /\ pub' = SendRaised(s, exc)

\* the failing connection is taken off the list and the loop goes on
OnSendErrorUnsubscribe(s, exc) ==
    /\ active_connections' = Without(active_connections, s.ws)
    /\ Broadcast(bIdx, Without(active_connections, s.ws), inflight \ {s}, SendRaised(s, exc))

\* except: pass.  A bare except: whatever the await raised (the error of a
\* closed connection, or the CancelledError of task.cancel()), the loop goes on
\* to the next connection.
OnSendError(s, exc) ==
    /\ active_connections' = active_connections
    /\ Broadcast(bIdx + 1, active_connections, inflight \ {s}, SendRaised(s, exc))

\* --------------------------------------------------------------- tick loop
\* the iteration without its "if simulator.devices" test: an empty registry is
\* aggregated and published like any other
CycleNoEmptyTest ==
    \/ /\ ~is_running
       /\ tickPc' = "done"
       /\ UNCHANGED <<bIdx, awaiting, inflight, pub, devices, message, cycles, rng>>
    \/ /\ is_running
       /\ cycles < MaxCycles
       /\ cycles' = cycles + 1
       /\ devices' = PerturbAll(devices, rng)
       /\ rng' = Advance(rng, 2 * Len(devices))
       /\ message' = MetricsUpdate(get_metrics(devices'))
       /\ Broadcast(0, active_connections, inflight, NewPub)

\* simulate_network from the test of its while loop to its next await
Cycle ==
    \/ /\ ~is_running
       /\ tickPc' = "done"
       /\ UNCHANGED <<bIdx, awaiting, inflight, pub, devices, message, cycles, rng>>
    \/ /\ is_running
       /\ cycles < MaxCycles
       /\ cycles' = cycles + 1
       /\ IF devices # <<>>
          THEN /\ devices' = PerturbAll(devices, rng)
               /\ rng' = Advance(rng, 2 * Len(devices))
               /\ IF MetricsRaises(devices')
                  THEN /\ tickPc' = "failed"
                       /\ UNCHANGED <<bIdx, awaiting, inflight, pub, message>>
                  ELSE /\ message' = MetricsUpdate(get_metrics(devices'))
                       /\ Broadcast(0, active_connections, inflight, NewPub)
          ELSE /\ tickPc' = "sleeping"
               /\ UNCHANGED <<bIdx, awaiting, inflight, pub, devices, message, rng>>

\* the event loop runs the new task for the first time
TaskStart ==
    /\ tickPc = "ready"
    /\ ~cancelReq
    /\ Cycle
    /\ UNCHANGED <<device_counter, adds, removes, is_running, active_connections,
                   lifeVars, socketVars, lastCall, calls, simVars>>

\* asyncio.sleep(2) expires
SleepExpire ==
    /\ tickPc = "sleeping"
    /\ ~cancelReq
    /\ Cycle
    /\ UNCHANGED <<device_counter, adds, removes, is_running, active_connections,
                   lifeVars, socketVars, lastCall, calls, simVars>>

\* A send ends: the client got the message, or the connection is closed and
\* send_json raises.  The task that awaits it resumes.
SendComplete ==
    \E s \in inflight :
        /\ chan[s.ws] # "stalled"
        /\ awaiting = s => ~cancelReq
        /\ recv' = IF chan[s.ws] = "open" THEN [recv EXCEPT ![s.ws] = Append(@, s.seq)] ELSE recv
        /\ IF awaiting = s
           THEN IF chan[s.ws] = "open"
                THEN /\ active_connections' = active_connections
                     /\ Broadcast(bIdx + 1, active_connections, inflight \ {s}, pub)
                ELSE OnSendError(s, "error")
           ELSE /\ inflight' = inflight \ {s}
                /\ UNCHANGED <<active_connections, tickPc, bIdx, awaiting, pub>>
        /\ UNCHANGED <<rng, registryVars, is_running, lifeVars, message, wsPc, chan,
                       cycles, lastCall, calls, simVars>>

\* The CancelledError of task.cancel() is thrown into the task where it is
\* suspended.  At the sleep (or before the task ever ran) nothing catches it.
CancelAtSleep ==
    /\ cancelReq
    /\ tickPc \in {"ready", "sleeping"}
    /\ tickPc' = "cancelled"
    /\ cancelReq' = FALSE
    /\ UNCHANGED <<rng, registryVars, is_running, active_connections, lifePc, stopOutcome,
                   cyclesAtStop, bIdx, awaiting, inflight, pub, message, socketVars,
                   cycles, lastCall, calls, simVars>>

\* At the await of send_json it is raised inside the try of broadcast.  The
\* frame of the interrupted send may or may not have reached the transport
\* before the task was resumed with the exception.
CancelAtSend ==
    /\ cancelReq
    /\ tickPc = "sending"
    /\ cancelReq' = FALSE
    /\ OnSendError(awaiting, "cancelled")
    /\ \E written \in BOOLEAN :
           recv' = IF written /\ chan[awaiting.ws] = "open"
                   THEN [recv EXCEPT ![awaiting.ws] = Append(@, awaiting.seq)]
                   ELSE recv
    /\ UNCHANGED <<rng, registryVars, is_running, lifePc, stopOutcome, cyclesAtStop,
                   message, wsPc, chan, cycles, lastCall, calls, simVars>>

\* ---------------------------------------------------------------- lifespan
Alive == tickPc \in {"ready", "sending", "sleeping"}
Ended == tickPc \in {"done", "cancelled", "failed"}

\* the part of lifespan before its yield
Startup ==
    /\ lifePc = "init"
    /\ LET r1 == AddMany(Reg(devices, device_counter), "smartphone", "eMBB", DemoEMBB, rng, cycles)
           r2 == AddMany(r1, "iot", "mMTC", DemoMMTC, rng, cycles)
           r3 == AddMany(r2, "vehicle", "URLLC", DemoURLLC, rng, cycles)
       IN  /\ devices' = r3.devs
           /\ device_counter' = r3.ctr
           /\ adds' = adds + r3.added
           /\ rng' = Advance(rng, r3.k)
    /\ is_running' = TRUE
    /\ tickPc' = "ready"
    /\ lifePc' = "running"
    /\ UNCHANGED <<removes, active_connections, stopOutcome, cancelReq, cyclesAtStop,
                   bIdx, awaiting, inflight, pub, message, socketVars, cycles,
                   lastCall, calls, simVars>>

\* the shutdown without simulator.is_running = False
ShutdownBeginKeepsRunning ==
    /\ lifePc = "running"
    /\ cancelReq' = Alive
    /\ cyclesAtStop' = cycles
    /\ lifePc' = "stopping"
    /\ UNCHANGED <<rng, registryVars, is_running, active_connections, stopOutcome, taskVars,
                   message, socketVars, cycles, lastCall, calls, simVars>>

\* the part of lifespan after its yield, up to await simulation_task
ShutdownBegin ==
    /\ lifePc = "running"
    /\ is_running' = FALSE
    /\ cancelReq' = Alive
    /\ cyclesAtStop' = cycles
    /\ lifePc' = "stopping"
    /\ UNCHANGED <<rng, registryVars, active_connections, stopOutcome, taskVars, message,
                   socketVars, cycles, lastCall, calls, simVars>>

\* what await simulation_task gives lifespan: CancelledError is caught, the
\* return is normal, any other exception of the task is raised again
AwaitTask(pc) == IF pc = "failed" THEN "error" ELSE "ok"

\* cancel() and no await: lifespan returns at once
ShutdownEndNoAwait ==
    /\ lifePc = "stopping"
    /\ lifePc' = "stopped"
    /\ stopOutcome' = "ok"
    /\ UNCHANGED <<rng, registryVars, is_running, active_connections, cancelReq, cyclesAtStop,
                   taskVars, message, socketVars, cycles, lastCall, calls, simVars>>

\* await simulation_task returns once the task has ended
ShutdownEnd ==
    /\ lifePc = "stopping"
    /\ Ended
    /\ lifePc' = "stopped"
    /\ stopOutcome' = AwaitTask(tickPc)
    /\ UNCHANGED <<rng, registryVars, is_running, active_connections, cancelReq, cyclesAtStop,
                   taskVars, message, socketVars, cycles, lastCall, calls, simVars>>

\* --------------------------------------------------------------------- hub
\* ConnectionManager.disconnect: list.remove raises ValueError when the
\* websocket is not in the list
disconnect(conns, w) ==
    IF w \in Range(conns)
    THEN [conns |-> Without(conns, w), err |-> FALSE]
    ELSE [conns |-> conns, err |-> TRUE]

HubCall(w, r) == [op |-> "disconnect", arg |-> NoArg, pre |-> w \in Range(active_connections), ok |-> ~r.err]

\* websocket_endpoint up to its first receive_text: connect accepts and appends.
\* Sockets are taken in the order of their numbers.
WsConnect(w) ==
    /\ wsPc[w] = "new"
    /\ \A v \in Sockets : v < w => wsPc[v] # "new"
    /\ active_connections' = Append(active_connections, w)
    /\ wsPc' = [wsPc EXCEPT ![w] = "open"]
    /\ chan' = [chan EXCEPT ![w] = "open"]
    /\ UNCHANGED <<rng, registryVars, is_running, lifeVars, taskVars,
                   message, recv, cycles, lastCall, calls, simVars>>

\* the client goes away
ClientClose(w) ==
    /\ chan[w] = "open"
    /\ chan' = [chan EXCEPT ![w] = "closed"]
    /\ UNCHANGED <<rng, registryVars, is_running, active_connections, lifeVars, taskVars,
                   message, wsPc, recv, cycles, lastCall, calls, simVars>>

\* the client stops reading for good: a send to it never completes
ClientStall(w) ==
    /\ chan[w] = "open"
    /\ chan' = [chan EXCEPT ![w] = "stalled"]
    /\ UNCHANGED <<rng, registryVars, is_running, active_connections, lifeVars, taskVars,
                   message, wsPc, recv, cycles, lastCall, calls, simVars>>

\* receive_text raises WebSocketDisconnect: except WebSocketDisconnect
HandlerDisconnect(w) ==
    /\ wsPc[w] = "open"
    /\ chan[w] = "closed"
    /\ LET r == disconnect(active_connections, w)
       IN  /\ active_connections' = r.conns
           /\ lastCall' = HubCall(w, r)
    /\ pub' = IF w \in Range(active_connections) THEN HubChanged(w) ELSE pub
    /\ wsPc' = [wsPc EXCEPT ![w] = "closed"]
    /\ UNCHANGED <<rng, registryVars, is_running, lifeVars, tickPc, bIdx, awaiting, inflight,
                   message, chan, recv, cycles, calls, simVars>>

\* receive_text raises something else (a frame that is no text): except Exception.
\* The endpoint returns and the server closes the connection.
HandlerError(w) ==
    /\ wsPc[w] = "open"
    /\ chan[w] = "open"
    /\ LET r == disconnect(active_connections, w)
       IN  /\ active_connections' = r.conns
           /\ lastCall' = HubCall(w, r)
    /\ pub' = IF w \in Range(active_connections) THEN HubChanged(w) ELSE pub
    /\ wsPc' = [wsPc EXCEPT ![w] = "closed"]
    /\ chan' = [chan EXCEPT ![w] = "closed"]
    /\ UNCHANGED <<rng, registryVars, is_running, lifeVars, tickPc, bIdx, awaiting, inflight,
                   message, recv, cycles, calls, simVars>>

\* manager.disconnect(websocket) called by the hosting layer with any handle
Unsubscribe(w) ==
    /\ calls.unsubscribe < MaxUnsubscribes
    /\ LET r == disconnect(active_connections, w)
       IN  /\ active_connections' = r.conns
           /\ lastCall' = HubCall(w, r)
    /\ pub' = IF w \in Range(active_connections) THEN HubChanged(w) ELSE pub
    /\ calls' = [calls EXCEPT !.unsubscribe = @ + 1]
    /\ UNCHANGED <<rng, registryVars, is_running, lifeVars, tickPc, bIdx, awaiting, inflight,
                   message, socketVars, cycles, simVars>>

\* ------------------------------------------------------------ registry API
\* the (device_type, slice_type) pairs requests carry: a pair of the table, an
\* unknown type, an unknown slice
AddInputs ==
    {<<"vehicle", "eMBB">>, <<"drone", "eMBB">>, <<"iot", "best-effort">>}

\* POST /api/devices
AddDevices(t, s, n) ==
    /\ calls.add < MaxAddCalls
    /\ LET r == AddMany(Reg(devices, device_counter), t, s, n, rng, cycles)
       IN  /\ devices' = r.devs
           /\ device_counter' = r.ctr
           /\ adds' = adds + r.added
           /\ rng' = Advance(rng, r.k)
           /\ lastCall' = [op |-> "add", arg |-> <<t, s>>, pre |-> ~NoThroughputRange(t, s), ok |-> ~r.raised]
    /\ calls' = [calls EXCEPT !.add = @ + 1]
    /\ UNCHANGED <<removes, is_running, active_connections, lifeVars, taskVars, message,
                   socketVars, cycles, simVars>>

\* SimulatorState.add_device called once, by any caller of the registry
AddDevice(t, s) ==
    /\ calls.add < MaxAdds
    /\ LET r == add_device(Reg(devices, device_counter), t, s, rng, cycles)
       IN  /\ devices' = r.devs
           /\ device_counter' = r.ctr
           /\ adds' = adds + r.added
           /\ rng' = Advance(rng, r.k)
           /\ lastCall' = [op |-> "add", arg |-> <<t, s>>, pre |-> ~NoThroughputRange(t, s),
                           ok |-> ~r.raised]
    /\ calls' = [calls EXCEPT !.add = @ + 1]
    /\ UNCHANGED <<removes, is_running, active_connections, lifeVars, taskVars, message,
                   socketVars, cycles, simVars>>

\* the identifiers requests ask to remove: of each type, the first number, the
\* number the counter has reached and the next one
RemoveInputs ==
    {DeviceId(t, n) : t \in DeviceTypes, n \in {1, device_counter, device_counter + 1}}

\* DELETE /api/devices/{device_id}
RemoveDevice(id) ==
    /\ calls.remove < MaxRemoveCalls
    /\ LET r == remove_device(devices, id)
       IN  /\ devices' = r.devs
           /\ removes' = removes + (IF r.ret THEN 1 ELSE 0)
           /\ lastCall' = [op |-> "remove", arg |-> id, pre |-> HasDevice(devices, id), ok |-> r.ret]
    /\ calls' = [calls EXCEPT !.remove = @ + 1]
    /\ UNCHANGED <<rng, device_counter, adds, is_running, active_connections, lifeVars,
                   taskVars, message, socketVars, cycles, simVars>>

\* SimulatorState.reset
Reset ==
    /\ calls.reset < MaxResets
    /\ devices' = <<>>
    /\ device_counter' = 0
    /\ adds' = 0
    /\ removes' = 0
    /\ lastCall' = [op |-> "reset", arg |-> NoArg, pre |-> TRUE, ok |-> TRUE]
    /\ calls' = [calls EXCEPT !.reset = @ + 1]
    /\ UNCHANGED <<rng, is_running, active_connections, lifeVars, taskVars, message,
                   socketVars, cycles, simVars>>

\* POST /api/reset
ResetSimulation ==
    /\ calls.reset_simulation < MaxResets
    /\ LET r1 == AddMany(Reg(<<>>, 0), "smartphone", "eMBB", ResetEMBB, rng, cycles)
           r2 == AddMany(r1, "iot", "mMTC", ResetMMTC, rng, cycles)
       IN  /\ devices' = r2.devs
           /\ device_counter' = r2.ctr
           /\ adds' = r2.added
           /\ rng' = Advance(rng, r2.k)
    /\ removes' = 0
    /\ lastCall' = [op |-> "reset_simulation", arg |-> NoArg, pre |-> TRUE, ok |-> TRUE]
    /\ calls' = [calls EXCEPT !.reset_simulation = @ + 1]
    /\ UNCHANGED <<is_running, active_connections, lifeVars, taskVars, message,
                   socketVars, cycles, simVars>>

\* ------------------------------------------------------------------- specs
TickNext ==
    \/ TaskStart
    \/ SleepExpire
    \/ SendComplete
    \/ CancelAtSleep
    \/ CancelAtSend

LifeNext ==
    \/ Startup
    \/ ShutdownBegin
    \/ ShutdownEnd

HubNext ==
    \E w \in Sockets :
        \/ WsConnect(w)
        \/ ClientClose(w)
        \/ ClientStall(w)
        \/ HandlerDisconnect(w)
        \/ HandlerError(w)
        \/ Unsubscribe(w)

RegistryNext ==
    \/ \E in \in AddInputs, n \in 1..MaxCount : AddDevices(in[1], in[2], n)
    \/ \E id \in RemoveInputs : RemoveDevice(id)
    \/ Reset
    \/ ResetSimulation

\* The service with websocket clients and no registry requests but reset():
\* the registry holds the demo devices of the startup, or nothing.
Next == TickNext \/ LifeNext \/ HubNext \/ Reset

Spec == Init /\ [][Next]_vars

\* The service with registry requests and no websocket client: every
\* broadcast finds an empty list.
RegistrySpecNext ==
    \/ RegistryNext
    \/ LifeNext
    \/ TaskStart
    \/ SleepExpire
    \/ CancelAtSleep

RegistrySpec == Init /\ [][RegistrySpecNext]_vars

\* get_metrics cutting the dict itself down to the listed devices
\* (self.devices = dict(list(self.devices.items())[:20]))
GetMetricsTruncating ==
    /\ lastCall' = [op |-> "get_metrics", arg |-> NoArg, pre |-> TRUE,
                    ok |-> ~MetricsRaises(devices)]
    /\ devices' = SubSeq(devices, 1, Min(Len(devices), ListingCap))
    /\ UNCHANGED <<rng, device_counter, adds, removes, is_running, active_connections,
                   lifeVars, taskVars, message, socketVars, cycles, calls, simVars>>

\* GET /api/metrics: the value returned is get_metrics(devices)
GetMetrics ==
    /\ lastCall' = [op |-> "get_metrics", arg |-> NoArg, pre |-> TRUE,
                    ok |-> ~MetricsRaises(devices)]
    /\ UNCHANGED <<rng, registryVars, is_running, active_connections, lifeVars, taskVars,
                   message, socketVars, cycles, calls, simVars>>

\* A registry filled by add_device alone, before the application starts: a
\* smartphones on eMBB, then b iot devices on mMTC, then c vehicles on URLLC,
\* the pairs of lifespan, with the values the generator gives from its seed.
Fleet(a, b, c, seed) ==
    LET r1 == AddMany(Reg(<<>>, 0), "smartphone", "eMBB", a, seed, 0)
        r2 == AddMany(r1, "iot", "mMTC", b, seed, 0)
    IN  AddMany(r2, "vehicle", "URLLC", c, seed, 0)

MetricsInit ==
    \E a \in 0..MaxFleet, b \in {0, DemoMMTC}, c \in {0, DemoURLLC}, seed \in Seeds :
        LET r == Fleet(a, b, c, seed)
        IN  /\ devices = r.devs
            /\ device_counter = r.ctr
            /\ adds = r.added
            /\ rng = Advance(seed, r.k)
            /\ removes = 0
            /\ is_running = FALSE
            /\ active_connections = <<>>
            /\ lifePc = "init"
            /\ stopOutcome = "none"
            /\ tickPc = "none"
            /\ bIdx = 0
            /\ awaiting = NoSend
            /\ cancelReq = FALSE
            /\ inflight = {}
            /\ message = MetricsUpdate(get_metrics(<<>>))
            /\ wsPc = [w \in Sockets |-> "new"]
            /\ chan = [w \in Sockets |-> "none"]
            /\ recv = [w \in Sockets |-> <<>>]
            /\ cycles = 0
            /\ cyclesAtStop = -1
            /\ pub = [seq |-> 0, stable |-> {}, attempts |-> [w \in Sockets |-> 0],
                      failed |-> {}, cancelled |-> {}, disturbed |-> FALSE,
                      complete |-> FALSE]
            /\ lastCall = NoCall
            /\ calls = [add |-> 0, remove |-> 0, reset |-> 0, reset_simulation |-> 0,
                        unsubscribe |-> 0]
            /\ NoSimulator

\* The registry read by get_metrics between removes and a reset.
MetricsNext ==
    \/ GetMetrics
    \/ \E id \in RemoveInputs : RemoveDevice(id)
    \/ Reset

MetricsSpec == MetricsInit /\ [][MetricsNext]_vars

\* The registry object alone, used through its methods add_device,
\* remove_device and reset.
CounterNext ==
    \/ \E p \in AddInputs : AddDevice(p[1], p[2])
    \/ \E id \in RemoveInputs : RemoveDevice(id)
    \/ Reset

CounterSpec == Init /\ [][CounterNext]_vars

\* The slices of a NetworkSimulator under calls of update_load.
SliceNext == \E id \in SliceIds : UpdateLoad(id)

SliceSpec == SimInit /\ [][SliceNext]_vars

\* One run of run_simulation.
SimNext ==
    \/ RunSimulation
    \/ SimTaskStart
    \/ SimSleepExpire
    \/ DurationElapsed
    \/ SimCancelAtSleep
    \/ RunReturn

SimulatorSpec == SimInit /\ [][SimNext]_vars

\* -------------------------------------------------------------- properties
Registered == Range(active_connections)
StrictlyIncreasing(s) == \A i, j \in 1..Len(s) : i < j => s[i] < s[j]

\* C1: the number of devices in the registry is the number of add_device calls
\* that returned a device minus the number of remove_device calls that returned
\* True, counted from the empty registry (the start, or the last reset()).
C1_CountIsAddsMinusRemoves == Len(devices) = adds - removes

C1_Witness ==
    /\ lastCall.op = "remove"
    /\ lastCall.ok
    /\ adds >= 2
    /\ removes >= 1
    /\ Len(devices) = adds - removes

C4_EveryStableSubscriberSentOnce ==
    pub.complete => \A w \in pub.stable : pub.attempts[w] = 1

\* C5: every subscriber receives the snapshots in the order of their publishes.
C5_DeliveryInPublishOrder == \A w \in Sockets : StrictlyIncreasing(recv[w])

C5_Witness == \E w \in Sockets : Len(recv[w]) >= 2

\* C6 as claimed: disconnect of a websocket that is not registered raises
\* nothing.
C6_UnsubscribeIdempotent ==
    (lastCall.op = "disconnect" /\ ~lastCall.pre) => lastCall.ok

\* C7 as claimed: a send that never completes does not hold the task up: while
\* the task is suspended on a send to a stalled client (and no cancellation is
\* pending), the task can go on.
C7_SlowConsumerDoesNotBlock ==
    (tickPc = "sending" /\ chan[awaiting.ws] = "stalled" /\ ~cancelReq)
        => ENABLED (SendComplete \/ SleepExpire)

\* C8: when the shutdown begins before the first sleep has expired (the loop
\* has begun at most one iteration), the loop never begins a second iteration,
\* and the task has ended when the shutdown returns.
C8_AtMostOneCycle ==
    cyclesAtStop \in {0, 1} =>
        /\ cycles <= 1
        /\ lifePc = "stopped" => Ended

C8_Witness ==
    /\ lifePc = "stopped"
    /\ cyclesAtStop = 1
    /\ cycles = 1
    /\ tickPc = "done"
    /\ pub.cancelled # {}

\* C9: the shutdown returns only once the task has ended, it returns normally,
\* and from then on the task begins no iteration, publishes nothing and
\* delivers nothing.
C9_StopWaitsForTask ==
    [][lifePc' = "stopped" =>
          /\ Ended'
          /\ stopOutcome' = "ok"
          /\ lifePc = "stopped" =>
                /\ cycles' = cycles
                /\ pub'.seq = pub.seq
                /\ pub'.attempts = pub.attempts
                /\ recv' = recv
                /\ tickPc' = tickPc]_vars

C9_Witness ==
    /\ lifePc = "stopped"
    /\ tickPc = "cancelled"
    /\ stopOutcome = "ok"
    /\ cycles >= 1
    /\ pub.seq >= 1

\* C10 as claimed: the shutdown never waits on a task that sleeps with no
\* cancellation pending; the CancelledError is never used up before the sleep.
C10_CancelNeverSwallowed ==
    ~(lifePc = "stopping" /\ tickPc = "sleeping" /\ ~cancelReq)

\* C11: an exception raised inside a cycle never ends the task.  The task is in
\* no state ended by an exception of its own, a publish in which a send raised
\* leaves it alive for its next iteration, and it ends only once the shutdown
\* has begun.
C11_CycleErrorDoesNotEndLoop ==
    /\ tickPc # "failed"
    /\ Ended => lifePc \in {"stopping", "stopped"}
    /\ (pub.complete /\ pub.failed # {} /\ lifePc = "running") => Alive

\* The second publish has completed although the send to w raised in the first
\* one as well: w precedes v in the list, v has both snapshots and w has none.
C11_Witness ==
    /\ lifePc = "running"
    /\ tickPc = "sleeping"
    /\ pub.seq = 2
    /\ pub.complete
    /\ \E w, v \in Sockets :
          /\ active_connections = <<w, v>>
          /\ w \in pub.failed
          /\ recv[w] = <<>>
          /\ recv[v] = <<1, 2>>

\* C12 as claimed: the shutdown leaves no cycle half-applied.  Once it has
\* returned, the last publish (every earlier one ended before its successor
\* began) has run to its end and the cancellation interrupted none of its sends.
C12_NoPublishCutShort ==
    (lifePc = "stopped" /\ pub.seq > 0) => (pub.complete /\ pub.cancelled = {})

\* C13: whenever a request can run (between two steps of the task), the tick
\* loop has written the latency and the throughput of every device the same
\* number of times: no write-back is seen half done by a read, an add or a
\* remove.
C13_PerturbationAtomic ==
    \A i \in 1..Len(devices) : devices[i].lat_writes = devices[i].thr_writes

\* a remove request has just run on a registry that holds a device the loop
\* has perturbed and a device added since
C13_Witness ==
    /\ lastCall.op = "remove"
    /\ lastCall.ok
    /\ \E i, j \in 1..Len(devices) :
          /\ devices[i].lat_writes >= 1
          /\ devices[j].lat_writes = 0

\* C14: remove_device(id) returns True exactly when a device with that id is
\* stored; it then deletes that device and no other.  When it returns False the
\* registry is as before.  The same id removed twice in a row gives True, then
\* False.
C14_RemoveExactlyPresent ==
    [][calls'.remove = calls.remove + 1 =>
          LET id == lastCall'.arg
              present == \E i \in 1..Len(devices) : devices[i].id = id
          IN  /\ lastCall'.op = "remove"
              /\ lastCall'.ok = present
              /\ lastCall'.ok =>
                    /\ Len(devices') = Len(devices) - 1
                    /\ \A i \in 1..Len(devices') : devices'[i].id # id
                    /\ devices' = SelectSeq(devices, LAMBDA d : d.id # id)
              /\ ~lastCall'.ok => (devices' = devices /\ device_counter' = device_counter)
              /\ (lastCall.op = "remove" /\ lastCall.ok /\ lastCall.arg = id) => ~lastCall'.ok
    ]_vars

\* smartphone 1 of the ten devices of the startup was removed, and the second
\* remove of the same id has just returned False
C14_Witness ==
    /\ lastCall.op = "remove"
    /\ ~lastCall.ok
    /\ lastCall.arg = DeviceId("smartphone", 1)
    /\ calls.remove = 2
    /\ removes = 1
    /\ calls.reset = 0
    /\ calls.reset_simulation = 0
    /\ device_counter = DemoEMBB + DemoMMTC + DemoURLLC
    /\ Len(devices) = device_counter - 1

\* C15: an add request whose (device_type, slice_type) is not a pair of the
\* throughput table ends with an error and stores nothing: the devices are the
\* same, in number and in content.  A request whose pair is in the table never
\* fails, and stores devices of that pair only.
C15_AddFailsExactlyOffTable ==
    [][calls'.add = calls.add + 1 =>
          LET t == lastCall'.arg[1]
              s == lastCall'.arg[2]
              inTable == /\ t \in {"smartphone", "vehicle", "iot"}
                         /\ s \in {"eMBB", "URLLC", "mMTC"}
          IN  /\ lastCall'.op = "add"
              /\ lastCall'.ok = inTable
              /\ ~lastCall'.ok => devices' = devices
              /\ lastCall'.ok =>
                    /\ Len(devices') > Len(devices)
                    /\ SubSeq(devices', 1, Len(devices)) = devices
                    /\ \A i \in (Len(devices) + 1)..Len(devices') :
                           devices'[i].type = t /\ devices'[i].slice = s
    ]_vars

\* an add of a known type with an unknown slice has just failed on a registry
\* that holds devices
C15_Witness ==
    /\ lastCall.op = "add"
    /\ ~lastCall.ok
    /\ lastCall.arg = <<"iot", "best-effort">>
    /\ Len(devices) > 0

\* C16: every stored device has one of the three device types and one of the
\* three slices.  So its slice is a key of latency_ranges (the default range
\* gave no stored latency) and of slice_distribution (the count in get_metrics
\* raises no KeyError, and the task never ends by one).
C16_OnlyKnownPairsStored ==
    /\ \A i \in 1..Len(devices) :
          /\ devices[i].type \in {"smartphone", "vehicle", "iot"}
          /\ devices[i].slice \in {"eMBB", "URLLC", "mMTC"}
          /\ devices[i].slice \in DOMAIN latency_ranges
    /\ ~MetricsRaises(devices)
    /\ tickPc # "failed"

\* an add of an unknown type was refused, devices are stored and the task has
\* been through a cycle
C16_Witness ==
    /\ lastCall.op = "add"
    /\ ~lastCall.ok
    /\ lastCall.arg[1] \notin DeviceTypes
    /\ Len(devices) > 0
    /\ cycles >= 1
    /\ tickPc = "sleeping"

\* C17: in every state, whatever adds, removes, resets and cycles came before,
\* each stored device has a latency of at least 1 and a throughput of at
\* least 1, a device no cycle has touched yet included.
C17_ValuesAtLeastOne ==
    \A i \in 1..Len(devices) : devices[i].latency >= 1 /\ devices[i].throughput >= 1

\* A cycle has brought an mMTC device of the iot type to the floor of 1 (its
\* range starts there and a draw took it below), next to a device added since.
C17_Witness ==
    /\ \E i \in 1..Len(devices) :
          /\ devices[i].type = "iot"
          /\ devices[i].thr_writes >= 1
          /\ devices[i].throughput = 1
    /\ \E j \in 1..Len(devices) : devices[j].thr_writes = 0
    /\ removes >= 1

IsZero(f) == f.num = 0 /\ f.den # 0

RECURSIVE CountSlice(_, _)
CountSlice(devs, s) ==
    IF devs = <<>> THEN 0
    ELSE (IF devs[1].slice = s THEN 1 ELSE 0) + CountSlice(Tail(devs), s)

\* C18: the network_load of every snapshot lies in [0, 100]: it is
\* total_throughput / 10000 * 100 (the quotient total_throughput / 100) when
\* that is at most 100, and exactly 100 when the total throughput exceeds 10000.
C18_LoadWithinPercent ==
    lastCall.op = "get_metrics" =>
        LET load == get_metrics(devices).network_load
            total == SumOf(devices, "throughput")
        IN  /\ load.den > 0
            /\ 0 <= load.num
            /\ load.num <= 100 * load.den
            /\ IF total <= 10000
               THEN load.num * 100 = total * load.den
               ELSE load.num = 100 * load.den

\* get_metrics has run on devices whose throughputs add up to more than 10000
C18_Witness ==
    /\ lastCall.op = "get_metrics"
    /\ SumOf(devices, "throughput") > 10000

\* C19: get_metrics of an empty registry returns, with no error, a load of 0,
\* no device, an average latency of 0, a throughput of 0, an empty listing and
\* a distribution that has each of the three slices at 0.
C19_EmptyRegistryAllZero ==
    (lastCall.op = "get_metrics" /\ devices = <<>>) =>
        LET m == get_metrics(devices)
        IN  /\ lastCall.ok
            /\ IsZero(m.network_load)
            /\ m.total_devices = 0
            /\ IsZero(m.avg_latency)
            /\ m.throughput = 0
            /\ m.devices = <<>>
            /\ DOMAIN m.slice_distribution = {"eMBB", "URLLC", "mMTC"}
            /\ \A s \in DOMAIN m.slice_distribution : m.slice_distribution[s] = 0

\* get_metrics has run on a registry whose last device a remove took away
C19_Witness ==
    /\ lastCall.op = "get_metrics"
    /\ devices = <<>>
    /\ removes >= 1
    /\ calls.reset = 0

\* C20: the distribution of every snapshot has the three slices as its keys
\* and no other, each counts the stored devices of its slice, and the counts
\* add up to total_devices.  For five smartphones on eMBB and three iot devices
\* on mMTC it is eMBB 5, URLLC 0, mMTC 3, of 8 devices.
C20_DistributionCountsSlices ==
    lastCall.op = "get_metrics" =>
        LET m == get_metrics(devices)
            dist == m.slice_distribution
        IN  /\ DOMAIN dist = {"eMBB", "URLLC", "mMTC"}
            /\ \A s \in DOMAIN dist : dist[s] = CountSlice(devices, s)
            /\ dist["eMBB"] + dist["URLLC"] + dist["mMTC"] = m.total_devices
            /\ m.total_devices = Len(devices)
            /\ (/\ Len(devices) = 8
                /\ \A i \in 1..5 : devices[i].type = "smartphone" /\ devices[i].slice = "eMBB"
                /\ \A i \in 6..8 : devices[i].type = "iot" /\ devices[i].slice = "mMTC")
               => (dist["eMBB"] = 5 /\ dist["URLLC"] = 0 /\ dist["mMTC"] = 3
                   /\ m.total_devices = 8)

\* get_metrics has run on five eMBB smartphones and three mMTC iot devices
C20_Witness ==
    /\ lastCall.op = "get_metrics"
    /\ Len(devices) = 8
    /\ \A i \in 1..Len(devices) :
          IF i <= 5 THEN devices[i].slice = "eMBB" ELSE devices[i].slice = "mMTC"

\* the number in the identifier of a device
SeqNo(d) == d.id[2]

\* C21: no two stored devices have the same identifier, nor the same number in
\* it.  In a step that is no reset, every device that is new in the registry
\* has a number above the counter before the step, which no number given out
\* since the last reset exceeds: so numbers grow from add to add and the number
\* of a removed device is not given again.
C21_IdsUniqueAndGrowing ==
    [][/\ \A i, j \in 1..Len(devices') :
              i # j => /\ devices'[i].id # devices'[j].id
                       /\ SeqNo(devices'[i]) # SeqNo(devices'[j])
       /\ \A i \in 1..Len(devices') : SeqNo(devices'[i]) <= device_counter'
       /\ (calls'.reset = calls.reset /\ calls'.reset_simulation = calls.reset_simulation) =>
              /\ device_counter' >= device_counter
              /\ \A i \in 1..Len(devices') :
                     (\A j \in 1..Len(devices) : devices[j].id # devices'[i].id)
                        => SeqNo(devices'[i]) > device_counter
    ]_vars

\* an add has given a number above those of the startup after a device of the
\* startup was removed
C21_Witness ==
    /\ lastCall.op = "add"
    /\ lastCall.ok
    /\ removes >= 1
    /\ calls.reset = 0
    /\ calls.reset_simulation = 0
    /\ \E i \in 1..Len(devices) : SeqNo(devices[i]) > DemoEMBB + DemoMMTC + DemoURLLC

\* C22 as claimed: reset() leaves no device and a counter of 0, whatever came
\* before, and the first add that succeeds after it gives the number 1.
C22_ResetRestartsNumbering ==
    [][/\ calls'.reset = calls.reset + 1 =>
              (devices' = <<>> /\ device_counter' = 0)
       /\ (/\ calls'.add = calls.add + 1
           /\ lastCall'.ok
           /\ calls.reset >= 1
           /\ adds = 0) =>
              \A i \in 1..Len(devices') : SeqNo(devices'[i]) = 1
    ]_vars

\* C27 as claimed: an add that fails leaves the counter as it was, and the
\* devices as well.
C27_FailedAddKeepsCounter ==
    [][(calls'.add = calls.add + 1 /\ ~lastCall'.ok) =>
          (device_counter' = device_counter /\ devices' = devices)
    ]_vars

\* C23: an iteration of the loop that finds no device changes no device,
\* starts no publish and no send, delivers nothing, and leaves the task at its
\* sleep; an iteration that finds a device starts one publish.  A publish
\* starts in no other step, so there is at most one for each iteration.
C23_EmptyCycleSkipsPublish ==
    [][/\ cycles' = cycles + 1 =>
              IF devices = <<>>
              THEN /\ devices' = devices
                   /\ pub' = pub
                   /\ message' = message
                   /\ inflight' = inflight
                   /\ recv' = recv
                   /\ tickPc' = "sleeping"
              ELSE /\ pub'.seq = pub.seq + 1
                   /\ Len(devices') = Len(devices)
       /\ cycles' = cycles => pub'.seq = pub.seq
       /\ pub'.seq <= cycles'
    ]_vars

\* Two iterations have found the registry empty, the second after the sleep
\* of the first: a subscriber is registered and has received nothing.
C23_Witness ==
    /\ lifePc = "running"
    /\ tickPc = "sleeping"
    /\ cycles = 2
    /\ pub.seq = 0
    /\ devices = <<>>
    /\ \E w \in Registered : chan[w] = "open" /\ recv[w] = <<>>

\* C24: a call of get_metrics changes nothing: the devices and each of their
\* fields, the counter, the running flag and the registered websockets are as
\* before, and a second computation gives the value of the first.
C24_GetMetricsChangesNothing ==
    [][(lastCall'.op = "get_metrics" /\ lastCall.op # "get_metrics") =>
          /\ devices' = devices
          /\ device_counter' = device_counter
          /\ is_running' = is_running
          /\ active_connections' = active_connections
          /\ rng' = rng
          /\ get_metrics(devices') = get_metrics(devices)
    ]_vars

\* get_metrics has run on a registry of more devices than it lists, after a
\* remove
C24_Witness ==
    /\ lastCall.op = "get_metrics"
    /\ Len(devices) > ListingCap
    /\ removes >= 1

\* C25: an iteration of the tick loop leaves the counter, the number and the
\* order of the devices and the id, type, slice and connected_at of each as
\* they were.  A device is gone from the registry only after a step of
\* remove_device, reset() or the reset request.
C25_TickKeepsIdentity ==
    [][/\ cycles' = cycles + 1 =>
              /\ device_counter' = device_counter
              /\ Len(devices') = Len(devices)
              /\ \A i \in 1..Len(devices) :
                     /\ devices'[i].id = devices[i].id
                     /\ devices'[i].type = devices[i].type
                     /\ devices'[i].slice = devices[i].slice
                     /\ devices'[i].connected_at = devices[i].connected_at
       /\ (\E i \in 1..Len(devices) :
              \A j \in 1..Len(devices') : devices'[j].id # devices[i].id) =>
              \/ calls'.remove = calls.remove + 1
              \/ calls'.reset = calls.reset + 1
              \/ calls'.reset_simulation = calls.reset_simulation + 1
    ]_vars

\* the loop has perturbed a device that was added after its first iteration,
\* and a remove has run
C25_Witness ==
    /\ cycles = 2
    /\ removes >= 1
    /\ \E i \in 1..Len(devices) :
          /\ devices[i].connected_at = 1
          /\ devices[i].lat_writes = 1

\* C26: the listing of a snapshot has min(count, 20) entries, the i-th being
\* the i-th device stored, in the order of insertion (numbers growing);
\* total_devices is the full count, beyond 20 as well.
C26_ListingIsFirstTwenty ==
    lastCall.op = "get_metrics" =>
        LET m == get_metrics(devices)
            n == IF Len(devices) <= 20 THEN Len(devices) ELSE 20
        IN  /\ Len(m.devices) = n
            /\ m.total_devices = Len(devices)
            /\ \A i \in 1..n :
                   /\ m.devices[i].id = devices[i].id
                   /\ m.devices[i].type = devices[i].type
                   /\ m.devices[i].slice = devices[i].slice
                   /\ m.devices[i].latency = devices[i].latency
                   /\ m.devices[i].throughput = devices[i].throughput
            /\ \A i, j \in 1..n : i < j => m.devices[i].id[2] < m.devices[j].id[2]

\* get_metrics has run on 21 devices left after the first one stored and one
\* more were removed
C26_Witness ==
    /\ lastCall.op = "get_metrics"
    /\ Len(devices) = 21
    /\ removes = 2
    /\ ~HasDevice(devices, DeviceId("smartphone", 1))

\* C28: the current_load of every slice is a whole number from 0 to 100, and
\* its status follows from it: congested exactly above 80, degraded exactly
\* above 60 and up to 80, active exactly up to 60.
C28_LoadBoundedStatusByLoad ==
    \A id \in SliceIds :
        LET load == network_slices[id].current_load
            status == network_slices[id].status
        IN  /\ load \in 0..100
            /\ status \in {"active", "degraded", "congested"}
            /\ (status = "congested") = (load > 80)
            /\ (status = "degraded") = (load > 60 /\ load <= 80)
            /\ (status = "active") = (load <= 60)

\* update_load has brought one slice to the ceiling and another to the floor
C28_Witness ==
    \E a, b \in SliceIds :
        /\ network_slices[a].current_load = 100
        /\ network_slices[a].status = "congested"
        /\ network_slices[b].current_load = 0
        /\ network_slices[b].status = "active"

\* C29: the history holds the records of the last min(cycles, 100)
\* iterations, oldest first, their time values going up by one to
\* simulation_time - 1, the last with the loads the slices have now;
\* simulation_time is the number of iterations completed; and run_simulation
\* returns with no exception, the task ended and is_running False.
C29_HistoryBoundedRunEndsClean ==
    LET n == Len(metrics_history)
    IN  /\ n <= 100
        /\ n = (IF simCycles <= 100 THEN simCycles ELSE 100)
        /\ simulation_time = simCycles
        /\ \A i \in 1..n : metrics_history[i].time = simulation_time - n + i - 1
        /\ n > 0 =>
              \A id \in SliceIds :
                  metrics_history[n].slices[id] = network_slices[id].current_load
        /\ runOutcome # "error"
        /\ runPc = "returned" =>
              /\ runOutcome = "ok"
              /\ simPc \in {"done", "cancelled"}
              /\ ~sim_is_running
              /\ ~simCancelReq

\* run_simulation has returned after more than 100 iterations: the oldest
\* records are gone
C29_Witness ==
    /\ runPc = "returned"
    /\ simPc = "cancelled"
    /\ simCycles > 100
    /\ Len(metrics_history) = 100
    /\ metrics_history[1].time = simCycles - 100

=============================================================================
